---- MODULE Spec2Model ----
(***************************************************************************)
(* Embedding layers of layers/Embed.py as a state machine.                 *)
(*                                                                         *)
(* The state is the framework version the process runs under, the module   *)
(* object that was last constructed (or the exception its constructor      *)
(* raised), and the arguments and result of the last forward call on it.   *)
(*                                                                         *)
(* Tensors are symbolic.  A tensor of rank 3 is a record                   *)
(*    [err, b, rows, w]                                                    *)
(* b is the size of dim 0, rows the sequence of the slices along dim 1     *)
(* and w the size of dim 2.  A slice is a set of addends (a sum of terms), *)
(* each addend a tuple that starts with a tag naming the computation that  *)
(* produced it, so the empty set is the all-zero slice.  err is "none" or  *)
(* the exception the tensor operation raised.  Python indices are 0-based  *)
(* and appear so inside the addends; sequence positions are 1-based.       *)
(*                                                                         *)
(* One module is alive at a time, and a forward call is made once the      *)
(* result of the call before it was dropped.                               *)
(***************************************************************************)
EXTENDS Integers, Sequences, FiniteSets, TLC

VARIABLES torch_version, mod, inp, out

vars == <<torch_version, mod, inp, out>>

(***************************************************************************)
(* Bounds of the model.                                                    *)
(***************************************************************************)
MaxB == 2
MaxL == 3
MaxCIn == 2
MaxDModel == 4
MaxTableLen == 3
MaxVirt == 2
MaxExo == 2
MaxVars == 2
MaxT == 5
MaxPatch == 3
MaxPad == 2

Batches == {1, MaxB}
SeqLens == 1..MaxL
CIns == {1, MaxCIn}
DModels == 1..MaxDModel
TableLens == 0..MaxTableLen
VirtCounts == {1, MaxVirt}
ExoDims == {1, MaxExo}
VarCounts == {1, MaxVars}

(***************************************************************************)
(* Values of torch.__version__, as sequences of characters.                *)
(***************************************************************************)
Versions ==
    { <<"1", ".", "4", ".", "0">>,
      <<"1", ".", "5", ".", "0">>,
      <<"1", ".", "1", "3", ".", "1">>,
      <<"2", ".", "1", ".", "0">> }

V150 == <<"1", ".", "5", ".", "0">>

\* Code point of a character of a version string.
Ord(c) ==
    CASE c = "." -> 46
      [] c = "0" -> 48 [] c = "1" -> 49 [] c = "2" -> 50 [] c = "3" -> 51
      [] c = "4" -> 52 [] c = "5" -> 53 [] c = "6" -> 54 [] c = "7" -> 55
      [] c = "8" -> 56 [] c = "9" -> 57

\* Python's str.__lt__: lexicographic by code point, a proper prefix is less.
RECURSIVE StrLess(_, _)
StrLess(a, b) ==
    IF a = <<>> THEN b # <<>>
    ELSE IF b = <<>> THEN FALSE
    ELSE IF Ord(Head(a)) # Ord(Head(b)) THEN Ord(Head(a)) < Ord(Head(b))
    ELSE StrLess(Tail(a), Tail(b))

\* Python's str.__ge__, as in  torch.__version__ >= "1.5.0".
StrGE(a, b) == ~StrLess(a, b)

(***************************************************************************)
(* Tensor operations.                                                      *)
(***************************************************************************)
Tensor(b, rows, w) == [err |-> "none", b |-> b, rows |-> rows, w |-> w]

Raised(e) == [err |-> e, b |-> 0, rows |-> <<>>, w |-> 0]

\* Two sizes broadcast together when they are equal or one of them is 1.
Broadcastable(m, n) == m = n \/ m = 1 \/ n = 1

BroadcastSize(m, n) == IF m = 1 THEN n ELSE m

\* A sliced assignment  dst[:, i::2] = src : src's columns must broadcast to
\* dst's, which they do when the counts agree or src has a single column.
SetItemOK(dstCols, srcCols) == srcCols = dstCols \/ srcCols = 1

\* x + y on rank-3 tensors, with broadcasting.
TensorAdd(x, y) ==
    IF x.err # "none" THEN x
    ELSE IF y.err # "none" THEN y
    ELSE IF ~( /\ Broadcastable(x.b, y.b)
               /\ Broadcastable(Len(x.rows), Len(y.rows))
               /\ Broadcastable(x.w, y.w) )
    THEN Raised("RuntimeError")
    ELSE LET n == BroadcastSize(Len(x.rows), Len(y.rows))
         IN Tensor(BroadcastSize(x.b, y.b),
                   [i \in 1..n |->
                       x.rows[IF Len(x.rows) = 1 THEN 1 ELSE i]
                       \cup y.rows[IF Len(y.rows) = 1 THEN 1 ELSE i]],
                   BroadcastSize(x.w, y.w))

\* torch.cat([x, y], dim=1)
CatDim1(x, y) ==
    IF x.err # "none" THEN x
    ELSE IF y.err # "none" THEN y
    ELSE IF x.b # y.b \/ x.w # y.w THEN Raised("RuntimeError")
    ELSE Tensor(x.b, x.rows \o y.rows, x.w)

\* torch.cat([x, y], dim=2)
CatDim2(x, y) ==
    IF x.err # "none" THEN x
    ELSE IF y.err # "none" THEN y
    ELSE IF x.b # y.b \/ Len(x.rows) # Len(y.rows) THEN Raised("RuntimeError")
    ELSE Tensor(x.b,
                [i \in 1..Len(x.rows) |-> {<<"cat", x.rows[i], y.rows[i]>>}],
                x.w + y.w)

\* nn.Linear(in_features, out_features) applied to the last dim.
Linear(in_features, out_features, x) ==
    IF x.err # "none" THEN x
    ELSE IF x.w # in_features THEN Raised("RuntimeError")
    ELSE Tensor(x.b,
                [i \in 1..Len(x.rows) |-> {<<"linear", x.rows[i]>>}],
                out_features)

\* nn.Dropout in evaluation mode (or with p = 0): the identity.
Dropout(x) == x

\* A value tensor x of shape [b, n, w]: slice t along dim 1 is <<tag, t>>.
Input(tag, b, n, w) == Tensor(b, [i \in 1..n |-> {<<tag, i - 1>>}], w)

(***************************************************************************)
(* PositionalEmbedding                                                     *)
(***************************************************************************)
DefaultMaxLen == 5000

\* The constructor.  pe is the registered buffer, given by its shape: entry
\* (p, c) of the table is a fixed function of p and c.
PositionalEmbedding(d_model, max_len) ==
    LET nDiv == (d_model + 1) \div 2       \* len(arange(0, d_model, 2))
        nEven == (d_model + 1) \div 2      \* columns of pe[:, 0::2]
        nOdd == d_model \div 2             \* columns of pe[:, 1::2]
        ok == SetItemOK(nEven, nDiv) /\ SetItemOK(nOdd, nDiv)
    IN [cls |-> "PositionalEmbedding",
        err |-> IF ok THEN "none" ELSE "RuntimeError",
        d_model |-> d_model,
        max_len |-> max_len,
        pe |-> IF ok THEN <<1, max_len, d_model>> ELSE <<>>]

\* forward: self.pe[:, :x.size(1)]
PositionalEmbedding_forward(m, n) ==
    LET k == IF n < m.pe[2] THEN n ELSE m.pe[2]
    IN Tensor(m.pe[1], [i \in 1..k |-> {<<"pe", i - 1>>}], m.pe[3])

(***************************************************************************)
(* TokenEmbedding                                                          *)
(***************************************************************************)
KernelSize == 3

\* The number a version string starts with.
RECURSIVE LeadingNumber(_, _)
LeadingNumber(s, acc) ==
    IF s = <<>> \/ Head(s) = "." THEN acc
    ELSE LeadingNumber(Tail(s), 10 * acc + (Ord(Head(s)) - 48))

\* What follows the first "." of a version string.
RECURSIVE AfterDot(_)
AfterDot(s) ==
    IF s = <<>> THEN <<>>
    ELSE IF Head(s) = "." THEN Tail(s)
    ELSE AfterDot(Tail(s))

\* Whether the framework is a release before 1.5.0.  Those releases padded
\* a circular convolution by (padding + 1) // 2 in front and padding // 2
\* behind; the later ones pad by padding on both sides.
ReleasedBefore150(version) ==
    \/ LeadingNumber(version, 0) < 1
    \/ /\ LeadingNumber(version, 0) = 1
       /\ LeadingNumber(AfterDot(version), 0) < 5

\* The padding the constructor selects from the framework version.
ConvPadding(version) == IF StrGE(version, V150) THEN 1 ELSE 2

\* The circular padding nn.Conv1d applies in front of and behind the time
\* axis, for its padding argument, under the running framework.
ExpandedPadding(padding, version) ==
    IF ReleasedBefore150(version)
    THEN <<(padding + 1) \div 2, padding \div 2>>
    ELSE <<padding, padding>>

TokenEmbedding(c_in, d_model, version) ==
    [cls |-> "TokenEmbedding",
     err |-> "none",
     in_channels |-> c_in,
     out_channels |-> d_model,
     kernel_size |-> KernelSize,
     padding |-> ConvPadding(version),
     expanded_padding |-> ExpandedPadding(ConvPadding(version), version)]

\* Index into the input of tap k of output position j (both 0-based) of a
\* convolution over an input of length n padded circularly by p in front.
CircularTap(j, k, p, n) == (j + k - p) % n

\* forward: the convolution along the time axis, and the two transposes.
\* Circular padding may not wrap around more than once.
TokenEmbedding_forward(m, x) ==
    IF x.err # "none" THEN x
    ELSE IF x.w # m.in_channels THEN Raised("RuntimeError")
    ELSE IF m.expanded_padding[1] > Len(x.rows)
            \/ m.expanded_padding[2] > Len(x.rows)
    THEN Raised("RuntimeError")
    ELSE LET n == Len(x.rows)
             nOut == n + m.expanded_padding[1] + m.expanded_padding[2]
                       - (m.kernel_size - 1)
         IN Tensor(x.b,
                   [i \in 1..nOut |->
                       {<<"conv",
                          [k \in 1..m.kernel_size |->
                              x.rows[CircularTap(i - 1, k - 1,
                                                 m.expanded_padding[1], n) + 1]]>>}],
                   m.out_channels)

(***************************************************************************)
(* Calendar tensors x_mark of shape [b, n, f].  Row i holds the calendar   *)
(* fields (month, day, weekday, hour, minute) of the i-th of n consecutive *)
(* time stamps, of which the first f are kept.                             *)
(***************************************************************************)
CalendarRow(k, f) ==
    SubSeq(<<1 + (k % 12), 1 + ((k + 9) % 31), (k + 3) % 7, (k + 13) % 24,
             (k + 2) % 4>>, 1, f)

Calendar(b, n, f, start) ==
    Tensor(b, [i \in 1..n |-> CalendarRow(start + i - 1, f)], f)

MarkWidths == {4, 5}
Starts == {0, 11}

(***************************************************************************)
(* FixedEmbedding, nn.Embedding and TemporalEmbedding                      *)
(***************************************************************************)
minute_size == 4
hour_size == 24
weekday_size == 7
day_size == 32
month_size == 13

Freqs == {"h", "t", "s", "m", "a", "w", "d", "b"}
AllFreqs == Freqs \cup {"x"}
EmbedTypes == {"fixed", "timeF", "learned"}

\* The sinusoidal table w[c_in, d_model], filled like PositionalEmbedding's.
FixedEmbedding(c_in, d_model) ==
    LET nDiv == (d_model + 1) \div 2
        nEven == (d_model + 1) \div 2
        nOdd == d_model \div 2
        ok == SetItemOK(nEven, nDiv) /\ SetItemOK(nOdd, nDiv)
    IN [cls |-> "FixedEmbedding",
        err |-> IF ok THEN "none" ELSE "RuntimeError",
        num_embeddings |-> c_in,
        d_model |-> d_model]

\* nn.Embedding(c_in, d_model): a learned table.
Embedding(c_in, d_model) ==
    [cls |-> "Embedding",
     err |-> "none",
     num_embeddings |-> c_in,
     d_model |-> d_model]

\* TemporalAttrs with minute_embed for every sub-hourly freq.
TemporalAttrsSubHourly(freq) ==
    (IF freq \in {"t", "s"} THEN {"minute_embed"} ELSE {})
    \cup {"hour_embed", "weekday_embed", "day_embed", "month_embed"}

\* The attributes TemporalEmbedding.__init__ assigns: minute_embed exists
\* only for freq "t".
TemporalAttrs(freq) ==
    (IF freq = "t" THEN {"minute_embed"} ELSE {})
    \cup {"hour_embed", "weekday_embed", "day_embed", "month_embed"}

TemporalSize(attr) ==
    CASE attr = "minute_embed" -> minute_size
      [] attr = "hour_embed" -> hour_size
      [] attr = "weekday_embed" -> weekday_size
      [] attr = "day_embed" -> day_size
      [] attr = "month_embed" -> month_size

TemporalEmbedding(d_model, embed_type, freq) ==
    LET embeds == [a \in TemporalAttrs(freq) |->
                      IF embed_type = "fixed"
                      THEN FixedEmbedding(TemporalSize(a), d_model)
                      ELSE Embedding(TemporalSize(a), d_model)]
    IN [cls |-> "TemporalEmbedding",
        err |-> IF \E a \in DOMAIN embeds : embeds[a].err # "none"
                THEN "RuntimeError" ELSE "none",
        d_model |-> d_model,
        embed_type |-> embed_type,
        freq |-> freq,
        embeds |-> embeds]

\* self.<attr>(x[:, :, col]): the table lookup of one calendar column.
FieldLookup(m, attr, x, col) ==
    IF col >= x.w THEN Raised("IndexError")
    ELSE IF \E i \in 1..Len(x.rows) :
               x.rows[i][col + 1] \notin 0..(m.embeds[attr].num_embeddings - 1)
    THEN Raised("IndexError")
    ELSE Tensor(x.b,
                [i \in 1..Len(x.rows) |-> {<<attr, x.rows[i][col + 1]>>}],
                m.d_model)

\* The float 0.0, which broadcasts against every tensor.
ZeroScalar == Tensor(1, <<{}>>, 1)

\* forward.  x.long() leaves the integer calendar fields as they are.
TemporalEmbedding_forward(m, x) ==
    LET minute_x == IF "minute_embed" \in DOMAIN m.embeds
                    THEN FieldLookup(m, "minute_embed", x, 4)
                    ELSE ZeroScalar
        hour_x == FieldLookup(m, "hour_embed", x, 3)
        weekday_x == FieldLookup(m, "weekday_embed", x, 2)
        day_x == FieldLookup(m, "day_embed", x, 1)
        month_x == FieldLookup(m, "month_embed", x, 0)
    IN IF minute_x.err # "none" THEN minute_x
       ELSE TensorAdd(TensorAdd(TensorAdd(TensorAdd(hour_x, weekday_x), day_x),
                                month_x),
                      minute_x)

(***************************************************************************)
(* TimeFeatureEmbedding                                                    *)
(***************************************************************************)
freq_map(freq) ==
    CASE freq = "h" -> 4 [] freq = "t" -> 5 [] freq = "s" -> 6
      [] freq = "m" -> 1 [] freq = "a" -> 1 [] freq = "w" -> 2
      [] freq = "d" -> 3 [] freq = "b" -> 3

\* TimeFeatureEmbedding with freq_map.get(freq, 4) for the lookup.
TimeFeatureEmbeddingDefaulting(d_model, embed_type, freq) ==
    [cls |-> "TimeFeatureEmbedding", err |-> "none",
     d_inp |-> IF freq \in Freqs THEN freq_map(freq) ELSE 4,
     d_model |-> d_model, freq |-> freq]

TimeFeatureEmbedding(d_model, embed_type, freq) ==
    IF freq \notin Freqs
    THEN [cls |-> "TimeFeatureEmbedding", err |-> "KeyError",
          d_inp |-> 0, d_model |-> d_model, freq |-> freq]
    ELSE [cls |-> "TimeFeatureEmbedding", err |-> "none",
          d_inp |-> freq_map(freq), d_model |-> d_model, freq |-> freq]

TimeFeatureEmbedding_forward(m, x) == Linear(m.d_inp, m.d_model, x)

(***************************************************************************)
(* Helpers of the composite embeddings                                     *)
(***************************************************************************)
\* An attribute the constructor never came to assign.
Unset == [cls |-> "unset", err |-> "none"]

\* The attribute a constructor assigns from sub-module m, when the statements
\* before it raised nothing (ok) and m's own constructor raises nothing.
Attr(ok, m) == IF ok /\ m.err = "none" THEN m ELSE Unset

\* An optional argument: None, or a tensor.
None == [none |-> TRUE]

Some(t) == [none |-> FALSE, val |-> t]

\* The temporal embedding the composites build: TemporalEmbedding unless
\* embed_type is "timeF".
MakeTemporal(d_model, embed_type, freq) ==
    IF embed_type # "timeF"
    THEN TemporalEmbedding(d_model, embed_type, freq)
    ELSE TimeFeatureEmbedding(d_model, embed_type, freq)

\* self.temporal_embedding(x_mark)
Temporal_forward(m, x) ==
    IF m.cls = "TemporalEmbedding"
    THEN TemporalEmbedding_forward(m, x)
    ELSE TimeFeatureEmbedding_forward(m, x)

\* x.permute(0, 2, 1): slice v along the new dim 1 is the series <<tag, v>>.
Permute021(x, tag) ==
    Tensor(x.b, [v \in 1..x.w |-> {<<tag, v - 1>>}], Len(x.rows))

(***************************************************************************)
(* DataEmbedding, DataEmbedding_wo_pos, DataEmbedding_inverted             *)
(***************************************************************************)
DataEmbedding(c_in, d_model, embed_type, freq, version) ==
    LET value == TokenEmbedding(c_in, d_model, version)
        position == PositionalEmbedding(d_model, DefaultMaxLen)
        temporal == MakeTemporal(d_model, embed_type, freq)
    IN [cls |-> "DataEmbedding",
        err |-> IF position.err # "none" THEN position.err ELSE temporal.err,
        c_in |-> c_in, d_model |-> d_model,
        embed_type |-> embed_type, freq |-> freq,
        value_embedding |-> value,
        position_embedding |-> Attr(TRUE, position),
        temporal_embedding |-> Attr(position.err = "none", temporal)]

DataEmbedding_forward(m, x, x_mark) ==
    IF x_mark.none
    THEN Dropout(TensorAdd(TokenEmbedding_forward(m.value_embedding, x),
                           PositionalEmbedding_forward(m.position_embedding,
                                                       Len(x.rows))))
    ELSE Dropout(TensorAdd(
                   TensorAdd(TokenEmbedding_forward(m.value_embedding, x),
                             Temporal_forward(m.temporal_embedding, x_mark.val)),
                   PositionalEmbedding_forward(m.position_embedding,
                                               Len(x.rows))))

DataEmbedding_wo_pos(c_in, d_model, embed_type, freq, version) ==
    [DataEmbedding(c_in, d_model, embed_type, freq, version)
        EXCEPT !.cls = "DataEmbedding_wo_pos"]

DataEmbedding_wo_pos_forward(m, x, x_mark) ==
    IF x_mark.none
    THEN Dropout(TokenEmbedding_forward(m.value_embedding, x))
    ELSE Dropout(TensorAdd(TokenEmbedding_forward(m.value_embedding, x),
                           Temporal_forward(m.temporal_embedding, x_mark.val)))

DataEmbedding_inverted(c_in, d_model, embed_type, freq) ==
    [cls |-> "DataEmbedding_inverted",
     err |-> "none",
     c_in |-> c_in, d_model |-> d_model,
     embed_type |-> embed_type, freq |-> freq,
     value_embedding |-> [cls |-> "Linear", err |-> "none",
                          in_features |-> c_in, out_features |-> d_model]]

DataEmbedding_inverted_forward(m, x, x_mark) ==
    LET xt == Permute021(x, "variate")
        lin == m.value_embedding
    IN IF x_mark.none
       THEN Dropout(Linear(lin.in_features, lin.out_features, xt))
       ELSE Dropout(Linear(lin.in_features, lin.out_features,
                           CatDim1(xt, Permute021(x_mark.val, "feature"))))

(***************************************************************************)
(* The exogenous prompt projector                                          *)
(***************************************************************************)
DefaultHiddenSize == 512

PromptTypes == {"two_layer_mlp", "brute_concat", "lora"}

\* An exo_prompt of shape [b, e], held as a tensor with a single slice.
ExoPrompt(b, e) == Tensor(b, <<{<<"exo_prompt">>}>>, e)

\* The match statement of both prompt-tuning constructors: the projector it
\* leaves in self.exo_prompt_projector, or the ValueError it raises.  The
\* attribute holds nn.Identity() when the match raises.
MatchPromptTuning(prompt_tuning_type, d_model, num_virtual_tokens, exo_prompt_dim, hidden) ==
    CASE prompt_tuning_type = "two_layer_mlp" ->
           [cls |-> "Sequential", err |-> "none",
            in_features |-> exo_prompt_dim,
            hidden |-> hidden,
            out_features |-> d_model * num_virtual_tokens]
      [] prompt_tuning_type = "brute_concat" ->
           [cls |-> "NoneType", err |-> "none"]
      [] OTHER ->
           [cls |-> "Identity", err |-> "ValueError"]

\* c_in of the value embedding: widened by the prompt under brute_concat.
TokenEmbeddingCIn(prompt_tuning_type, c_in, exo_prompt_dim) ==
    IF prompt_tuning_type # "brute_concat" THEN c_in ELSE c_in + exo_prompt_dim

\* torch.nn.Tanh
Tanh(x) ==
    IF x.err # "none" THEN x
    ELSE Tensor(x.b, [i \in 1..Len(x.rows) |-> {<<"tanh", x.rows[i]>>}], x.w)

\* The two-layer projector: Linear, Tanh, Linear.
Projector_forward(p, exo_prompt) ==
    Linear(p.hidden, p.out_features,
           Tanh(Linear(p.in_features, p.hidden, exo_prompt)))

\* repeat(exo_prompt, "b v -> b l v", l=l)
Repeat(exo_prompt, l) ==
    Tensor(exo_prompt.b, [i \in 1..l |-> exo_prompt.rows[1]], exo_prompt.w)

\* rearrange(exo_prompt, "b (l d) -> b l d", l=l): slice k holds columns
\* k*d .. (k+1)*d - 1 of the projected vector.
Rearrange(exo_prompt, l) ==
    IF exo_prompt.err # "none" THEN exo_prompt
    ELSE IF exo_prompt.w % l # 0 THEN Raised("EinopsError")
    ELSE LET d == exo_prompt.w \div l
         IN Tensor(exo_prompt.b,
                   [k \in 1..l |->
                       {<<"chunk", exo_prompt.rows[1], (k - 1) * d, k * d>>}],
                   d)

\* The first block of both forwards: the prompt as the policy shapes it, l
\* being the size of dim 1 of x.
ShapePrompt(m, exo_prompt, l) ==
    IF m.prompt_tuning_type = "brute_concat"
    THEN Repeat(exo_prompt, l)
    ELSE IF m.prompt_tuning_type = "two_layer_mlp"
    THEN Rearrange(Projector_forward(m.exo_prompt_projector, exo_prompt),
                   m.num_virtual_tokens)
    ELSE exo_prompt

\* torch.zeros_like(x)
ZerosLike(x) ==
    IF x.err # "none" THEN x
    ELSE Tensor(x.b, [i \in 1..Len(x.rows) |-> {}], x.w)

(***************************************************************************)
(* DataEmbeddingWithExoPromptTuning                                        *)
(***************************************************************************)
DataEmbeddingWithExoPromptTuning(c_in, d_model, embed_type, freq, prompt_tuning_type, num_virtual_tokens, exo_prompt_dim, version) ==
    LET projector == MatchPromptTuning(prompt_tuning_type, d_model,
                                       num_virtual_tokens, exo_prompt_dim,
                                       DefaultHiddenSize)
        matched == projector.err = "none"
        value == TokenEmbedding(
                    TokenEmbeddingCIn(prompt_tuning_type, c_in, exo_prompt_dim),
                    d_model, version)
        position == PositionalEmbedding(d_model, DefaultMaxLen)
        temporal == MakeTemporal(d_model, embed_type, freq)
    IN [cls |-> "DataEmbeddingWithExoPromptTuning",
        err |-> IF ~matched THEN projector.err
                ELSE IF position.err # "none" THEN position.err
                ELSE temporal.err,
        c_in |-> c_in, d_model |-> d_model,
        embed_type |-> embed_type, freq |-> freq,
        prompt_tuning_type |-> prompt_tuning_type,
        num_virtual_tokens |-> num_virtual_tokens,
        exo_prompt_dim |-> exo_prompt_dim,
        exo_prompt_projector |-> projector,
        value_embedding |-> Attr(matched, value),
        position_embedding |-> Attr(matched, position),
        temporal_embedding |-> Attr(matched /\ position.err = "none", temporal)]

\* The temporal embedding as it is added: under every policy but
\* brute_concat, a zero filler shaped like the prompt goes in front of it.
ExtendTemporal(m, exo_prompt, temporal_embedding) ==
    IF m.prompt_tuning_type # "brute_concat"
    THEN CatDim1(ZerosLike(exo_prompt), temporal_embedding)
    ELSE temporal_embedding

\* The value embedding and the prompt combined: channel-wise before the
\* convolution under brute_concat, as leading tokens after it otherwise.
EmbedWithPrompt(m, x, exo_prompt) ==
    IF m.prompt_tuning_type = "brute_concat"
    THEN TokenEmbedding_forward(m.value_embedding, CatDim2(exo_prompt, x))
    ELSE CatDim1(exo_prompt, TokenEmbedding_forward(m.value_embedding, x))

\* forward.  y is the value returned (or the exception), temporal_embedding
\* the local of that name when the call got to add it.
DataEmbeddingWithExoPromptTuning_forward(m, x, x_mark, exo_prompt0) ==
    LET exo_prompt == ShapePrompt(m, exo_prompt0, Len(x.rows))
        v == EmbedWithPrompt(m, x, exo_prompt)
        xp == TensorAdd(v, IF v.err = "none"
                           THEN PositionalEmbedding_forward(
                                   m.position_embedding, Len(v.rows))
                           ELSE v)
    IN IF x_mark.none
       THEN [y |-> Dropout(xp), temporal_embedding |-> None]
       ELSE IF xp.err # "none"
       THEN [y |-> xp, temporal_embedding |-> None]
       ELSE LET te == ExtendTemporal(
                         m, exo_prompt,
                         Temporal_forward(m.temporal_embedding, x_mark.val))
            IN [y |-> Dropout(TensorAdd(xp, te)),
                temporal_embedding |-> Some(te)]

(***************************************************************************)
(* DataEmbedding_inverted_WithExoPromptTuning                              *)
(***************************************************************************)
DataEmbedding_inverted_WithExoPromptTuning(c_in, d_model, embed_type, freq, prompt_tuning_type, num_virtual_tokens, exo_prompt_dim) ==
    LET projector == MatchPromptTuning(prompt_tuning_type, d_model,
                                       num_virtual_tokens, exo_prompt_dim,
                                       DefaultHiddenSize)
        matched == projector.err = "none"
        value == [cls |-> "Linear", err |-> "none",
                  in_features |-> TokenEmbeddingCIn(prompt_tuning_type, c_in,
                                                    exo_prompt_dim),
                  out_features |-> d_model]
    IN [cls |-> "DataEmbedding_inverted_WithExoPromptTuning",
        err |-> projector.err,
        c_in |-> c_in, d_model |-> d_model,
        embed_type |-> embed_type, freq |-> freq,
        prompt_tuning_type |-> prompt_tuning_type,
        num_virtual_tokens |-> num_virtual_tokens,
        exo_prompt_dim |-> exo_prompt_dim,
        exo_prompt_projector |-> projector,
        value_embedding |-> Attr(matched, value)]

\* F.pad(x, (0, pad_length)): pad_length zeros after the last dim (a negative
\* pad_length crops).
PadRight(x, pad_length) ==
    IF x.err # "none" THEN x
    ELSE IF x.w + pad_length < 0 THEN Raised("RuntimeError")
    ELSE Tensor(x.b,
                [i \in 1..Len(x.rows) |-> {<<"pad", x.rows[i], 0, pad_length>>}],
                x.w + pad_length)

\* PadLength that pads by the whole width of x.
PadLengthWhole(x, x_mark_i) == x.w

\* pad_length = x.size(2) - x_mark_i.size(2)
PadLength(x, x_mark_i) == x.w - x_mark_i.w

DataEmbedding_inverted_WithExoPromptTuning_forward(m, x0, x_mark, exo_prompt0) ==
    LET x == Permute021(x0, "variate")
        exo_prompt == ShapePrompt(m, exo_prompt0, Len(x.rows))
        lin == m.value_embedding
    IN IF x_mark.none
       THEN IF m.prompt_tuning_type = "brute_concat"
            THEN Dropout(Linear(lin.in_features, lin.out_features,
                                CatDim2(x, exo_prompt)))
            ELSE Dropout(CatDim1(Linear(lin.in_features, lin.out_features, x),
                                 exo_prompt))
       ELSE LET x_mark_i == Permute021(x_mark.val, "feature")
            IN IF m.prompt_tuning_type = "brute_concat"
               THEN LET xc == CatDim2(x, exo_prompt)
                    IN IF xc.err # "none" THEN xc
                       ELSE Dropout(Linear(
                              lin.in_features, lin.out_features,
                              CatDim1(xc, PadRight(x_mark_i,
                                                   PadLength(xc, x_mark_i)))))
               ELSE Dropout(CatDim1(Linear(lin.in_features, lin.out_features,
                                           CatDim1(x, x_mark_i)),
                                    exo_prompt))

(***************************************************************************)
(* PatchEmbedding.  Its tensors are held element by element: a tensor of   *)
(* rank r is a sequence (dim 0) of tensors of rank r - 1, and element      *)
(* (b, v, t) of the input is <<"x", b, v, t>>.                             *)
(***************************************************************************)
PatchInput(b, v, t) ==
    [i \in 1..b |-> [j \in 1..v |-> [k \in 1..t |-> <<"x", i - 1, j - 1, k - 1>>]]]

PatchEmbedding(d_model, patch_len, stride, padding) ==
    LET position == PositionalEmbedding(d_model, DefaultMaxLen)
    IN [cls |-> "PatchEmbedding",
        err |-> position.err,
        d_model |-> d_model,
        patch_len |-> patch_len,
        stride |-> stride,
        padding_patch_layer |-> [cls |-> "ReplicationPad1d", err |-> "none",
                                 left |-> 0, right |-> padding],
        value_embedding |-> [cls |-> "Linear", err |-> "none",
                             in_features |-> patch_len,
                             out_features |-> d_model],
        position_embedding |-> Attr(TRUE, position)]

\* ReplicationPad that repeats the last value once more than asked.
ReplicationPadOneMore(series, right) ==
    series \o [i \in 1..(right + 1) |-> series[Len(series)]]

\* nn.ReplicationPad1d((0, right)) on one series: the last value, repeated.
ReplicationPad(series, right) ==
    series \o [i \in 1..right |-> series[Len(series)]]

\* The number of windows x.unfold(-1, size, step) takes from a series of
\* length n (n >= size).
UnfoldCount(n, size, step) == (n - size) \div step + 1

\* x.unfold(dimension=-1, size=size, step=step) on one series.
Unfold(series, size, step) ==
    [k \in 1..UnfoldCount(Len(series), size, step) |->
        SubSeq(series, (k - 1) * step + 1, (k - 1) * step + size)]

\* FoldVariates with the variate as the slow index: row r is x[r % B][r // B].
FoldVariatesVariateMajor(x) ==
    LET v == Len(x[1])
        b == Len(x)
    IN [r \in 1..(b * v) |-> x[((r - 1) % b) + 1][((r - 1) \div b) + 1]]

\* torch.reshape(x, (x.shape[0] * x.shape[1], x.shape[2], x.shape[3])):
\* row r of the result is x[r // V][r % V], V = x.shape[1].
FoldVariates(x) ==
    LET v == Len(x[1])
    IN [r \in 1..(Len(x) * v) |-> x[((r - 1) \div v) + 1][((r - 1) % v) + 1]]

\* forward.  y[r][k] is the embedding of patch k of row r: the projected
\* patch plus row k of the positional table.  padded_len is the length of
\* the time axis after the padding layer.
PatchEmbedding_forward(m, x) ==
    LET n_vars == Len(x[1])
        padded == [b \in 1..Len(x) |->
                     [v \in 1..n_vars |->
                        ReplicationPad(x[b][v], m.padding_patch_layer.right)]]
        tp == Len(padded[1][1])
    IN IF m.patch_len > tp
       THEN [err |-> "RuntimeError", y |-> <<>>, shape |-> <<>>,
             n_vars |-> n_vars, padded_len |-> tp]
       ELSE LET unfolded == [b \in 1..Len(x) |->
                               [v \in 1..n_vars |->
                                  Unfold(padded[b][v], m.patch_len, m.stride)]]
                folded == FoldVariates(unfolded)
                n == Len(folded[1])
                pos == PositionalEmbedding_forward(m.position_embedding, n)
            IN IF ~Broadcastable(n, Len(pos.rows))
               THEN [err |-> "RuntimeError", y |-> <<>>, shape |-> <<>>,
                     n_vars |-> n_vars, padded_len |-> tp]
               ELSE [err |-> "none",
                     y |-> [r \in 1..Len(folded) |->
                              [k \in 1..n |->
                                 {<<"linear", folded[r][k]>>} \cup pos.rows[k]]],
                     shape |-> <<Len(folded), n, m.value_embedding.out_features>>,
                     n_vars |-> n_vars, padded_len |-> tp]

(***************************************************************************)
(* The state machine                                                       *)
(***************************************************************************)
NoModule == [cls |-> "none", err |-> "none"]

NoCall == [op |-> "none"]

Init ==
    /\ torch_version \in Versions
    /\ mod = NoModule
    /\ inp = NoCall
    /\ out = NoCall

\* The object (or the failed construction) is dropped.
Release ==
    /\ mod.cls # "none"
    /\ mod' = NoModule
    /\ inp' = NoCall
    /\ out' = NoCall
    /\ UNCHANGED torch_version

\* The result of a forward call, a transient, is dropped by the caller.
Discard ==
    /\ out.op # "none"
    /\ inp' = NoCall
    /\ out' = NoCall
    /\ UNCHANGED <<torch_version, mod>>

NewPositionalEmbedding ==
    /\ mod.cls = "none"
    /\ \E d \in DModels, ml \in TableLens :
          mod' = PositionalEmbedding(d, ml)
    /\ UNCHANGED <<torch_version, inp, out>>

CallPositionalEmbedding ==
    /\ mod.cls = "PositionalEmbedding"
    /\ mod.err = "none"
    /\ out.op = "none"
    /\ \E b \in Batches, n \in 0..(MaxTableLen + 1) :
          /\ inp' = [op |-> "PositionalEmbedding", b |-> b, n |-> n]
          /\ out' = [op |-> "PositionalEmbedding",
                     y |-> PositionalEmbedding_forward(mod, n)]
    /\ UNCHANGED <<torch_version, mod>>

NewTokenEmbedding ==
    /\ mod.cls = "none"
    /\ \E c \in CIns, d \in DModels :
          mod' = TokenEmbedding(c, d, torch_version)
    /\ UNCHANGED <<torch_version, inp, out>>

CallTokenEmbedding ==
    /\ mod.cls = "TokenEmbedding"
    /\ mod.err = "none"
    /\ out.op = "none"
    /\ \E b \in Batches, n \in SeqLens, c \in CIns :
          /\ inp' = [op |-> "TokenEmbedding", b |-> b, n |-> n, c |-> c]
          /\ out' = [op |-> "TokenEmbedding",
                     y |-> TokenEmbedding_forward(mod, Input("x", b, n, c))]
    /\ UNCHANGED <<torch_version, mod>>

NewTemporalEmbedding ==
    /\ mod.cls = "none"
    /\ \E d \in DModels, e \in EmbedTypes, f \in AllFreqs :
          mod' = TemporalEmbedding(d, e, f)
    /\ UNCHANGED <<torch_version, inp, out>>

CallTemporalEmbedding ==
    /\ mod.cls = "TemporalEmbedding"
    /\ mod.err = "none"
    /\ out.op = "none"
    /\ \E b \in Batches, n \in SeqLens, f \in MarkWidths, s \in Starts :
          /\ inp' = [op |-> "TemporalEmbedding", b |-> b, n |-> n,
                     x_mark |-> Calendar(b, n, f, s)]
          /\ out' = [op |-> "TemporalEmbedding",
                     y |-> TemporalEmbedding_forward(mod, Calendar(b, n, f, s))]
    /\ UNCHANGED <<torch_version, mod>>

NewTimeFeatureEmbedding ==
    /\ mod.cls = "none"
    /\ \E d \in DModels, f \in AllFreqs :
          mod' = TimeFeatureEmbedding(d, "timeF", f)
    /\ UNCHANGED <<torch_version, inp, out>>

CallTimeFeatureEmbedding ==
    /\ mod.cls = "TimeFeatureEmbedding"
    /\ mod.err = "none"
    /\ out.op = "none"
    /\ \E b \in Batches, n \in SeqLens, f \in MarkWidths :
          /\ inp' = [op |-> "TimeFeatureEmbedding", b |-> b, n |-> n,
                     x_mark |-> Calendar(b, n, f, 0)]
          /\ out' = [op |-> "TimeFeatureEmbedding",
                     y |-> TimeFeatureEmbedding_forward(mod, Calendar(b, n, f, 0))]
    /\ UNCHANGED <<torch_version, mod>>

CompFreqs == {"h", "t", "x"}
InvertedFreqs == {"h", "x"}

\* The optional calendar tensors a forward call is given.
Marks(b, n) == {None} \cup {Some(Calendar(b, n, f, 0)) : f \in MarkWidths}

NewDataEmbedding ==
    /\ mod.cls = "none"
    /\ \E c \in CIns, d \in DModels, e \in EmbedTypes, f \in CompFreqs :
          mod' = DataEmbedding(c, d, e, f, torch_version)
    /\ UNCHANGED <<torch_version, inp, out>>

CallDataEmbedding ==
    /\ mod.cls = "DataEmbedding"
    /\ mod.err = "none"
    /\ out.op = "none"
    /\ \E b \in Batches, n \in SeqLens :
          \E x_mark \in Marks(b, n) :
             /\ inp' = [op |-> "DataEmbedding", b |-> b, n |-> n,
                        x_mark |-> x_mark]
             /\ out' = [op |-> "DataEmbedding",
                        y |-> DataEmbedding_forward(
                                 mod, Input("x", b, n, mod.c_in), x_mark)]
    /\ UNCHANGED <<torch_version, mod>>

NewDataEmbedding_wo_pos ==
    /\ mod.cls = "none"
    /\ \E c \in CIns, d \in DModels, e \in EmbedTypes, f \in CompFreqs :
          mod' = DataEmbedding_wo_pos(c, d, e, f, torch_version)
    /\ UNCHANGED <<torch_version, inp, out>>

CallDataEmbedding_wo_pos ==
    /\ mod.cls = "DataEmbedding_wo_pos"
    /\ mod.err = "none"
    /\ out.op = "none"
    /\ \E b \in Batches, n \in SeqLens :
          \E x_mark \in Marks(b, n) :
             /\ inp' = [op |-> "DataEmbedding_wo_pos", b |-> b, n |-> n,
                        x_mark |-> x_mark]
             /\ out' = [op |-> "DataEmbedding_wo_pos",
                        y |-> DataEmbedding_wo_pos_forward(
                                 mod, Input("x", b, n, mod.c_in), x_mark)]
    /\ UNCHANGED <<torch_version, mod>>

NewDataEmbedding_inverted ==
    /\ mod.cls = "none"
    /\ \E c \in SeqLens, d \in DModels, e \in EmbedTypes, f \in InvertedFreqs :
          mod' = DataEmbedding_inverted(c, d, e, f)
    /\ UNCHANGED <<torch_version, inp, out>>

CallDataEmbedding_inverted ==
    /\ mod.cls = "DataEmbedding_inverted"
    /\ mod.err = "none"
    /\ out.op = "none"
    /\ \E b \in Batches, n \in SeqLens, v \in VarCounts :
          \E x_mark \in Marks(b, n) :
             /\ inp' = [op |-> "DataEmbedding_inverted", b |-> b, n |-> n,
                        v |-> v, x_mark |-> x_mark]
             /\ out' = [op |-> "DataEmbedding_inverted",
                        y |-> DataEmbedding_inverted_forward(
                                 mod, Input("x", b, n, v), x_mark)]
    /\ UNCHANGED <<torch_version, mod>>

NewDataEmbeddingWithExoPromptTuning ==
    /\ mod.cls = "none"
    /\ \E c \in CIns, d \in DModels, e \in EmbedTypes, f \in CompFreqs,
          p \in PromptTypes, k \in VirtCounts, q \in ExoDims :
          mod' = DataEmbeddingWithExoPromptTuning(c, d, e, f, p, k, q,
                                                  torch_version)
    /\ UNCHANGED <<torch_version, inp, out>>

CallDataEmbeddingWithExoPromptTuning ==
    /\ mod.cls = "DataEmbeddingWithExoPromptTuning"
    /\ mod.err = "none"
    /\ out.op = "none"
    /\ \E b \in Batches, n \in SeqLens :
          \E x_mark \in Marks(b, n) :
             LET r == DataEmbeddingWithExoPromptTuning_forward(
                         mod, Input("x", b, n, mod.c_in), x_mark,
                         ExoPrompt(b, mod.exo_prompt_dim))
             IN /\ inp' = [op |-> "DataEmbeddingWithExoPromptTuning",
                           b |-> b, n |-> n, x_mark |-> x_mark]
                /\ out' = [op |-> "DataEmbeddingWithExoPromptTuning",
                           y |-> r.y,
                           temporal_embedding |-> r.temporal_embedding]
    /\ UNCHANGED <<torch_version, mod>>

NewDataEmbedding_inverted_WithExoPromptTuning ==
    /\ mod.cls = "none"
    /\ \E c \in SeqLens, d \in DModels, e \in EmbedTypes, f \in InvertedFreqs,
          p \in PromptTypes, k \in VirtCounts, q \in ExoDims :
          mod' = DataEmbedding_inverted_WithExoPromptTuning(c, d, e, f, p, k, q)
    /\ UNCHANGED <<torch_version, inp, out>>

\* The module is constructed with c_in equal to the sequence length, so x
\* has mod.c_in time steps.
CallDataEmbedding_inverted_WithExoPromptTuning ==
    /\ mod.cls = "DataEmbedding_inverted_WithExoPromptTuning"
    /\ mod.err = "none"
    /\ out.op = "none"
    /\ \E b \in Batches, v \in VarCounts :
          \E x_mark \in Marks(b, mod.c_in) :
             /\ inp' = [op |-> "DataEmbedding_inverted_WithExoPromptTuning",
                        b |-> b, n |-> mod.c_in, v |-> v, x_mark |-> x_mark]
             /\ out' = [op |-> "DataEmbedding_inverted_WithExoPromptTuning",
                        y |-> DataEmbedding_inverted_WithExoPromptTuning_forward(
                                 mod, Input("x", b, mod.c_in, v), x_mark,
                                 ExoPrompt(b, mod.exo_prompt_dim))]
    /\ UNCHANGED <<torch_version, mod>>

NewPatchEmbedding ==
    /\ mod.cls = "none"
    /\ \E d \in DModels, pl \in 1..MaxPatch, st \in 1..MaxPatch,
          pad \in 0..MaxPad :
          mod' = PatchEmbedding(d, pl, st, pad)
    /\ UNCHANGED <<torch_version, inp, out>>

CallPatchEmbedding ==
    /\ mod.cls = "PatchEmbedding"
    /\ mod.err = "none"
    /\ out.op = "none"
    /\ \E b \in Batches, v \in VarCounts, t \in 1..MaxT :
          LET r == PatchEmbedding_forward(mod, PatchInput(b, v, t))
          IN /\ inp' = [op |-> "PatchEmbedding", b |-> b, v |-> v, t |-> t]
             /\ out' = [op |-> "PatchEmbedding", err |-> r.err, y |-> r.y,
                        shape |-> r.shape, n_vars |-> r.n_vars,
                        padded_len |-> r.padded_len]
    /\ UNCHANGED <<torch_version, mod>>

Next ==
    \/ Release
    \/ Discard
    \/ NewPositionalEmbedding
    \/ CallPositionalEmbedding
    \/ NewTokenEmbedding
    \/ CallTokenEmbedding
    \/ NewTemporalEmbedding
    \/ CallTemporalEmbedding
    \/ NewTimeFeatureEmbedding
    \/ CallTimeFeatureEmbedding
    \/ NewDataEmbedding
    \/ CallDataEmbedding
    \/ NewDataEmbedding_wo_pos
    \/ CallDataEmbedding_wo_pos
    \/ NewDataEmbedding_inverted
    \/ CallDataEmbedding_inverted
    \/ NewDataEmbeddingWithExoPromptTuning
    \/ CallDataEmbeddingWithExoPromptTuning
    \/ NewDataEmbedding_inverted_WithExoPromptTuning
    \/ CallDataEmbedding_inverted_WithExoPromptTuning
    \/ NewPatchEmbedding
    \/ CallPatchEmbedding

Spec == Init /\ [][Next]_vars

\* The leaf embeddings alone.
NextLeaf ==
    \/ Release
    \/ Discard
    \/ NewPositionalEmbedding
    \/ CallPositionalEmbedding
    \/ NewTokenEmbedding
    \/ CallTokenEmbedding
    \/ NewTemporalEmbedding
    \/ CallTemporalEmbedding
    \/ NewTimeFeatureEmbedding
    \/ CallTimeFeatureEmbedding

SpecLeaf == Init /\ [][NextLeaf]_vars

\* The two prompt-tuning embeddings alone.
NextPrompt ==
    \/ Release
    \/ Discard
    \/ NewDataEmbeddingWithExoPromptTuning
    \/ CallDataEmbeddingWithExoPromptTuning
    \/ NewDataEmbedding_inverted_WithExoPromptTuning
    \/ CallDataEmbedding_inverted_WithExoPromptTuning

SpecPrompt == Init /\ [][NextPrompt]_vars

\* PatchEmbedding alone.
NextPatch ==
    \/ Release
    \/ Discard
    \/ NewPatchEmbedding
    \/ CallPatchEmbedding

SpecPatch == Init /\ [][NextPatch]_vars

\* Every constructor that takes freq, and the forward calls of those that
\* are not prompt-tuned.
NextFreq ==
    \/ Release
    \/ Discard
    \/ NewTemporalEmbedding
    \/ CallTemporalEmbedding
    \/ NewTimeFeatureEmbedding
    \/ CallTimeFeatureEmbedding
    \/ NewDataEmbedding
    \/ CallDataEmbedding
    \/ NewDataEmbedding_wo_pos
    \/ CallDataEmbedding_wo_pos
    \/ NewDataEmbedding_inverted
    \/ CallDataEmbedding_inverted
    \/ NewDataEmbeddingWithExoPromptTuning
    \/ NewDataEmbedding_inverted_WithExoPromptTuning

SpecFreq == Init /\ [][NextFreq]_vars

(***************************************************************************)
(* Properties                                                              *)
(***************************************************************************)
Supported == {"two_layer_mlp", "brute_concat"}

\* The calendar tensor has the columns the module's temporal embedding reads.
MarkFits(m, x_mark) ==
    \/ x_mark.none
    \/ /\ m.temporal_embedding.cls = "TemporalEmbedding"
       /\ x_mark.val.w >= (IF "minute_embed" \in DOMAIN m.temporal_embedding.embeds
                           THEN 5 ELSE 4)
    \/ /\ m.temporal_embedding.cls = "TimeFeatureEmbedding"
       /\ x_mark.val.w = m.temporal_embedding.d_inp

\* The addends of a slice that come from the temporal embedding.
TemporalPart(row) ==
    {a \in row : a[1] \in {"minute_embed", "hour_embed", "weekday_embed",
                           "day_embed", "month_embed", "linear"}}

C3_PolicyValidated ==
    mod.cls \in {"DataEmbeddingWithExoPromptTuning",
                 "DataEmbedding_inverted_WithExoPromptTuning"} =>
        /\ mod.prompt_tuning_type \notin Supported =>
              /\ mod.err = "ValueError"
              /\ mod.value_embedding.cls = "unset"
              /\ out.op = "none"
        /\ (mod.prompt_tuning_type \in Supported /\ mod.freq \in Freqs) =>
              /\ mod.err = "none"
              /\ mod.value_embedding.cls # "unset"

FreqClasses ==
    {"TimeFeatureEmbedding", "TemporalEmbedding", "DataEmbedding",
     "DataEmbedding_wo_pos", "DataEmbedding_inverted",
     "DataEmbeddingWithExoPromptTuning",
     "DataEmbedding_inverted_WithExoPromptTuning"}

\* The constructor of m comes to build a TimeFeatureEmbedding from freq.
BuildsTimeFeature(m) ==
    \/ m.cls = "TimeFeatureEmbedding"
    \/ /\ m.cls \in {"DataEmbedding", "DataEmbedding_wo_pos",
                     "DataEmbeddingWithExoPromptTuning"}
       /\ m.embed_type = "timeF"

\* The module m's constructor gives for freq f and m's other arguments.
WithFreq(m, f) ==
    CASE m.cls = "TemporalEmbedding" ->
           TemporalEmbedding(m.d_model, m.embed_type, f)
      [] m.cls = "DataEmbedding" ->
           DataEmbedding(m.c_in, m.d_model, m.embed_type, f, torch_version)
      [] m.cls = "DataEmbedding_wo_pos" ->
           DataEmbedding_wo_pos(m.c_in, m.d_model, m.embed_type, f,
                                torch_version)
      [] m.cls = "DataEmbedding_inverted" ->
           DataEmbedding_inverted(m.c_in, m.d_model, m.embed_type, f)
      [] m.cls = "DataEmbeddingWithExoPromptTuning" ->
           DataEmbeddingWithExoPromptTuning(
              m.c_in, m.d_model, m.embed_type, f, m.prompt_tuning_type,
              m.num_virtual_tokens, m.exo_prompt_dim, torch_version)
      [] m.cls = "DataEmbedding_inverted_WithExoPromptTuning" ->
           DataEmbedding_inverted_WithExoPromptTuning(
              m.c_in, m.d_model, m.embed_type, f, m.prompt_tuning_type,
              m.num_virtual_tokens, m.exo_prompt_dim)

\* C4 as stated: every constructor that takes freq fails on an unrecognized
\* freq, whatever embed_type is, so no forward call is made on such a
\* module.
C4_EveryConstructorRejects ==
    (mod.cls \in FreqClasses /\ mod.freq \notin Freqs) =>
        mod.err # "none" /\ out.op = "none"

\* C4, amended: an unrecognized freq makes construction fail exactly where
\* a TimeFeatureEmbedding is built from it: TimeFeatureEmbedding itself
\* (KeyError), and DataEmbedding, DataEmbedding_wo_pos and
\* DataEmbeddingWithExoPromptTuning with embed_type timeF, none of which
\* reaches a forward call.  Every other construction never raises KeyError
\* and ends as it does for freq "h": TemporalEmbedding with a learned table
\* and the two inverted embeddings with a supported policy construct.
C4_OnlyTimeFeatureRejects ==
    (mod.cls \in FreqClasses /\ mod.freq \notin Freqs) =>
        /\ BuildsTimeFeature(mod) => mod.err # "none" /\ out.op = "none"
        /\ mod.cls = "TimeFeatureEmbedding" => mod.err = "KeyError"
        /\ ~BuildsTimeFeature(mod) =>
              /\ mod.err # "KeyError"
              /\ mod.err = WithFreq(mod, "h").err
        /\ (mod.cls = "TemporalEmbedding" /\ mod.embed_type # "fixed") =>
              mod.err = "none"
        /\ mod.cls = "DataEmbedding_inverted" => mod.err = "none"
        /\ (/\ mod.cls = "DataEmbedding_inverted_WithExoPromptTuning"
            /\ mod.prompt_tuning_type \in Supported) => mod.err = "none"

\* C4's case: modules built with the unrecognized freq, one that raised and
\* one whose forward call returned.
C4_Witness ==
    /\ mod.cls = "DataEmbedding"
    /\ mod.freq = "x"
    /\ mod.embed_type = "learned"
    /\ mod.err = "none"
    /\ out.op = "DataEmbedding"
    /\ ~inp.x_mark.none
    /\ out.y.err = "none"

C6_PositionalTable ==
    mod.cls = "PositionalEmbedding" =>
        /\ mod.err = "none"
        /\ mod.pe = <<1, mod.max_len, mod.d_model>>
        /\ (out.op = "PositionalEmbedding" /\ inp.n <= mod.max_len) =>
              /\ out.y.err = "none"
              /\ out.y.b = 1
              /\ Len(out.y.rows) = inp.n
              /\ out.y.w = mod.d_model
              /\ \A i \in 1..inp.n : out.y.rows[i] = {<<"pe", i - 1>>}

\* Element i (1-based) of the padded series of variate v of batch element b
\* of a PatchEmbedding input with t time steps.
PaddedElement(b, v, i, t) == <<"x", b, v, (IF i < t THEN i ELSE t) - 1>>

\* C7: PatchEmbedding.forward on x [B, V, T] with T + padding >= patch_len
\* returns n_vars = V and patches of shape [B*V, n_patches, d_model],
\* n_patches = (T + padding - patch_len) // stride + 1; row b*V + v holds
\* the patches of variate v of batch element b, patch k being the window
\* of the padded series that starts at k * stride, plus row k of the
\* positional table.
C7_PatchesFolded ==
    (/\ out.op = "PatchEmbedding"
     /\ inp.t + mod.padding_patch_layer.right >= mod.patch_len) =>
        LET n == (inp.t + mod.padding_patch_layer.right - mod.patch_len)
                    \div mod.stride + 1
        IN /\ out.err = "none"
           /\ out.n_vars = inp.v
           /\ out.shape = <<inp.b * inp.v, n, mod.d_model>>
           /\ Len(out.y) = inp.b * inp.v
           /\ \A b \in 0..(inp.b - 1), v \in 0..(inp.v - 1) :
                 /\ Len(out.y[b * inp.v + v + 1]) = n
                 /\ \A k \in 1..n :
                       out.y[b * inp.v + v + 1][k] =
                          { <<"linear",
                              [j \in 1..mod.patch_len |->
                                  PaddedElement(b, v, (k - 1) * mod.stride + j,
                                                inp.t)]>>,
                            <<"pe", k - 1>> }

\* C7's case: two batch elements of two variates each, in several patches.
C7_Witness ==
    /\ out.op = "PatchEmbedding"
    /\ out.err = "none"
    /\ inp.b = 2
    /\ inp.v = 2
    /\ out.shape[1] = 4
    /\ out.shape[2] >= 2
    /\ mod.padding_patch_layer.right > 0

\* The 1-based steps of the padded time axis that a window holds.
CoveredSteps(n, patch_len, stride) ==
    {(k - 1) * stride + j : k \in 1..n, j \in 1..patch_len}

\* The steps of the padded time axis that the patches of row r of y hold,
\* read off the patches: patch k holds step (k-1)*stride + j when its j-th
\* element is that step's.
StepsInPatches(y, r, stride, t, padded_len) ==
    {i \in 1..padded_len :
        \E k \in 1..Len(y[r]) :
           \E a \in y[r][k] :
              /\ a[1] = "linear"
              /\ \E j \in 1..Len(a[2]) :
                    /\ i = (k - 1) * stride + j
                    /\ a[2][j][4] = (IF i < t THEN i ELSE t) - 1}

\* C8 as stated: the padding makes T + padding - patch_len a multiple of
\* stride, so the windows hold every step of the padded series and every
\* input time step is in some patch.
C8_PaddedEvenly ==
    (out.op = "PatchEmbedding" /\ out.err = "none") =>
        /\ (out.padded_len - mod.patch_len) % mod.stride = 0
        /\ StepsInPatches(out.y, 1, mod.stride, inp.t, out.padded_len)
              = 1..out.padded_len

\* C8, amended: PatchEmbedding pads the time axis behind by exactly
\* `padding` copies of the last value, whatever T is, and takes the
\* (T + padding - patch_len) // stride + 1 windows that start at multiples
\* of stride.  The windows hold every step of the padded series exactly
\* when T + padding - patch_len is a multiple of stride and the windows
\* leave no gap (stride <= patch_len, or there is one window); otherwise
\* some steps are in no patch, the last (T + padding - patch_len) % stride
\* among them.
C8_PaddedByArgument ==
    (out.op = "PatchEmbedding" /\ out.err = "none") =>
        LET tp == inp.t + mod.padding_patch_layer.right
            n == (tp - mod.patch_len) \div mod.stride + 1
            rest == (tp - mod.patch_len) % mod.stride
            held == StepsInPatches(out.y, 1, mod.stride, inp.t, out.padded_len)
        IN /\ out.padded_len = tp
           /\ Len(out.y[1]) = n
           /\ held = CoveredSteps(n, mod.patch_len, mod.stride)
           /\ (held = 1..tp) <=>
                 (rest = 0 /\ (mod.stride <= mod.patch_len \/ n = 1))
           /\ \A i \in (tp - rest + 1)..tp : i \notin held

\* C8's case: a call whose padded length leaves a remainder, so that an
\* input time step is in no patch.
C8_Witness ==
    /\ out.op = "PatchEmbedding"
    /\ out.err = "none"
    /\ mod.padding_patch_layer.right = 1
    /\ (out.padded_len - mod.patch_len) % mod.stride # 0
    /\ inp.t \notin StepsInPatches(out.y, 1, mod.stride, inp.t, out.padded_len)

\* The sum of the lookups of calendar columns 0 .. 3 (and 4, with minute)
\* of calendar row r.
FieldSum(r, minute) ==
    {<<"month_embed", r[1]>>, <<"day_embed", r[2]>>, <<"weekday_embed", r[3]>>,
     <<"hour_embed", r[4]>>}
    \cup (IF minute THEN {<<"minute_embed", r[5]>>} ELSE {})

SubHourly == {"t", "s"}

\* C9 as stated: TemporalEmbedding.forward returns at every position the
\* sum of the month, day, weekday and hour lookups of columns 0 .. 3, plus
\* the minute lookup of column 4 exactly when freq is sub-hourly.
C9_MinuteWhenSubHourly ==
    (/\ out.op = "TemporalEmbedding"
     /\ mod.freq \in Freqs
     /\ inp.x_mark.w = 5) =>
        /\ out.y.err = "none"
        /\ \A t \in 1..inp.n :
              out.y.rows[t] = FieldSum(inp.x_mark.rows[t],
                                       mod.freq \in SubHourly)

\* C9, amended: the minute lookup of column 4 is added exactly when freq is
\* "t".  For every other freq, the sub-hourly "s" among them, the result is
\* the sum of the four lookups of columns 0 .. 3 and column 4 is never
\* read, so a calendar tensor of four columns is enough; for freq "t" one
\* of four columns raises IndexError.  Both hold for the fixed and for the
\* learned tables.
C9_MinuteWhenMinutely ==
    out.op = "TemporalEmbedding" =>
        IF mod.freq = "t" /\ inp.x_mark.w < 5
        THEN out.y.err = "IndexError"
        ELSE /\ out.y.err = "none"
             /\ out.y.b = inp.b
             /\ out.y.w = mod.d_model
             /\ Len(out.y.rows) = inp.n
             /\ \A t \in 1..inp.n :
                   out.y.rows[t] = FieldSum(inp.x_mark.rows[t], mod.freq = "t")

\* C9's case: a call on a module built for the sub-hourly freq "s", with a
\* calendar tensor that has the minute column.
C9_Witness ==
    /\ out.op = "TemporalEmbedding"
    /\ mod.freq = "s"
    /\ mod.embed_type = "fixed"
    /\ inp.x_mark.w = 5
    /\ inp.n = 2
    /\ out.y.err = "none"

====
